---- MODULE Spec2Model ----
(***************************************************************************)
(* A model of rag_processor.py: the rollup-subtitle deduplication of       *)
(* clean_srt_content (SpecDedup), the rule loop of enforce_terminology     *)
(* (SpecRules), and the batch run of main / process_file /                 *)
(* process_with_gemini over a directory of transcripts (Spec, FairSpec).   *)
(*                                                                         *)
(* Text is a sequence of one-character strings, so that strip, split,      *)
(* startswith and join are computed as Python computes them.               *)
(***************************************************************************)
EXTENDS Integers, Sequences, FiniteSets, TLC

\* ------------------------------------------------------------------ bounds

\* Total number of text lines over all cue blocks of one subtitle input.
MaxLines == 5
\* Largest worker pool (--workers) a run is started with.
MaxWorkers == 2

\* ------------------------------------------------------- program constants

\* process_with_gemini(..., max_retries: int = 3)
max_retries == 3

\* -------------------------------------------------------------------- text

SP == " "
NL == "\n"

\* str.strip() strips whitespace; the whitespace of the model's alphabet.
IsSpace(c) == c \in {SP, NL}

RECURSIVE LStrip(_)
LStrip(s) ==
    IF s = <<>> THEN <<>>
    ELSE IF IsSpace(Head(s)) THEN LStrip(Tail(s)) ELSE s

RECURSIVE RStrip(_)
RStrip(s) ==
    IF s = <<>> THEN <<>>
    ELSE IF IsSpace(s[Len(s)]) THEN RStrip(SubSeq(s, 1, Len(s) - 1)) ELSE s

\* str.strip()
Strip(s) == RStrip(LStrip(s))

\* str.startswith(p)
StartsWith(s, p) == Len(p) <= Len(s) /\ SubSeq(s, 1, Len(p)) = p

\* s[n:]
DropFirst(s, n) == SubSeq(s, n + 1, Len(s))

\* `sub in s`
Contains(s, sub) ==
    \E k \in 0..(Len(s) - Len(sub)) : SubSeq(s, k + 1, k + Len(sub)) = sub

\* str.split('\n'): the pieces between line breaks, empty pieces kept.
RECURSIVE SplitFrom(_, _)
SplitFrom(s, cur) ==
    IF s = <<>> THEN <<cur>>
    ELSE IF Head(s) = NL THEN <<cur>> \o SplitFrom(Tail(s), <<>>)
    ELSE SplitFrom(Tail(s), Append(cur, Head(s)))

SplitLines(s) == SplitFrom(s, <<>>)

\* sep.join(parts)
RECURSIVE Join(_, _)
Join(parts, sep) ==
    IF parts = <<>> THEN <<>>
    ELSE IF Len(parts) = 1 THEN parts[1]
    ELSE parts[1] \o sep \o Join(Tail(parts), sep)

\* [l.strip() for l in text.split('\n') if l.strip()]
RECURSIVE StripNonEmpty(_)
StripNonEmpty(ls) ==
    IF ls = <<>> THEN <<>>
    ELSE IF Strip(Head(ls)) = <<>> THEN StripNonEmpty(Tail(ls))
    ELSE <<Strip(Head(ls))>> \o StripNonEmpty(Tail(ls))

TrimmedLines(text) == StripNonEmpty(SplitLines(text))

\* ---------------------------------------------------------- CueBlockParser

\* re.sub(r'<[^>]*>', '', text): every "<" with a later ">" is removed up to
\* the first such ">"; a "<" with no ">" after it stays.
RECURSIVE RemoveTags(_)
RemoveTags(s) ==
    IF s = <<>> THEN <<>>
    ELSE IF Head(s) = "<" /\ \E k \in 2..Len(s) : s[k] = ">"
    THEN LET k == CHOOSE k \in 2..Len(s) :
                      s[k] = ">" /\ \A m \in 2..(k - 1) : s[m] # ">"
         IN  RemoveTags(DropFirst(s, k))
    ELSE <<Head(s)>> \o RemoveTags(Tail(s))

\* One matched cue: group(4) stripped, then its tags removed.
CleanBlock(raw) == RemoveTags(Strip(raw))

\* The loop over pattern.finditer: cues holds the text group of every match,
\* in order; a cue whose cleaned text is the empty string is not appended.
RECURSIVE ParseBlocks(_)
ParseBlocks(cues) ==
    IF cues = <<>> THEN <<>>
    ELSE IF CleanBlock(Head(cues)) = <<>> THEN ParseBlocks(Tail(cues))
    ELSE <<CleanBlock(Head(cues))>> \o ParseBlocks(Tail(cues))

\* -------------------------------------------------------- RollupDeduplicator

\* curr_lines[:len(prev_lines)] == prev_lines
IsLinePrefix(prev_lines, curr_lines) ==
    SubSeq(curr_lines, 1, Len(prev_lines)) = prev_lines

\* StartIdx with the comparison of the shared lines left out of its second
\* branch.
StartIdxNoPrefixCheck(prev_lines, curr_lines) ==
    IF prev_lines # <<>> /\ curr_lines # <<>>
    THEN IF curr_lines[1] = prev_lines[Len(prev_lines)] THEN 1
         ELSE IF Len(prev_lines) < Len(curr_lines) THEN Len(prev_lines)
              ELSE 0
    ELSE 0

\* StartIdx with the first line of the block compared with the first line of
\* its predecessor, not with the last.
StartIdxFirstLine(prev_lines, curr_lines) ==
    IF prev_lines # <<>> /\ curr_lines # <<>>
    THEN IF curr_lines[1] = prev_lines[1] THEN 1
         ELSE IF Len(prev_lines) < Len(curr_lines)
                 /\ IsLinePrefix(prev_lines, curr_lines)
              THEN Len(prev_lines)
              ELSE 0
    ELSE 0

\* start_idx of Case 2 (0-based, as in the code).
StartIdx(prev_lines, curr_lines) ==
    IF prev_lines # <<>> /\ curr_lines # <<>>
    THEN IF curr_lines[1] = prev_lines[Len(prev_lines)] THEN 1
         ELSE IF Len(prev_lines) < Len(curr_lines)
                 /\ IsLinePrefix(prev_lines, curr_lines)
              THEN Len(prev_lines)
              ELSE 0
    ELSE 0

\* PrefixFragments with the remainder taken as it stands, not stripped.
PrefixFragmentsUntrimmed(prev_text, curr_text) ==
    LET new_part == DropFirst(curr_text, Len(prev_text))
    IN  IF new_part # <<>> THEN <<new_part>> ELSE <<>>

\* Case 1: the part of curr_text after prev_text, stripped, when not empty.
PrefixFragments(prev_text, curr_text) ==
    LET new_part == Strip(DropFirst(curr_text, Len(prev_text)))
    IN  IF new_part # <<>> THEN <<new_part>> ELSE <<>>

\* Case 2: curr_lines[start_idx:], each line a fragment.
LineFragments(prev_text, curr_text) ==
    LET prev_lines == TrimmedLines(prev_text)
        curr_lines == TrimmedLines(curr_text)
    IN  DropFirst(curr_lines, StartIdx(prev_lines, curr_lines))

\* What one pass of the loop over blocks[1:] appends to cleaned_lines.
BlockFragments(prev_text, curr_text) ==
    IF StartsWith(curr_text, prev_text)
    THEN PrefixFragments(prev_text, curr_text)
    ELSE LineFragments(prev_text, curr_text)

\* The deduplication of clean_srt_content as a function of its blocks.
RECURSIVE DedupFrom(_, _, _)
DedupFrom(bs, i, acc) ==
    IF i > Len(bs) THEN acc
    ELSE DedupFrom(bs, i + 1, acc \o BlockFragments(bs[i - 1], bs[i]))

DedupLines(bs) == IF bs = <<>> THEN <<>> ELSE DedupFrom(bs, 2, <<bs[1]>>)

\* clean_srt_content, from the text groups of the matched cues.
clean_srt_content(cues) == Join(DedupLines(ParseBlocks(cues)), <<SP>>)

\* ------------------------------------------------------------------- state

VARIABLES
    \* main
    workers,        \* args.workers
    entries,        \* the entries of args.dir that are not outputs
    phase,          \* "init", "running" (inside the executor), "reported",
                    \* "returned" (main returned with no file found)
    submits,        \* executor.submit calls per file in this run
    files,          \* the files list of the current run
    collected,      \* futures main has taken from as_completed
    \* the directory
    fs,             \* output path -> "absent", "partial" (opened, not fully
                    \* written) or "complete"
    fsAtStart,      \* fs when the current run started
    \* process_file, one per submitted file
    pc,             \* position of the job
    status,         \* "Pending", "Skipped", "Succeeded", "Failed"
    reason,         \* which return of process_file ended the job
    content,        \* the content local of process_file
    reads,          \* reads of the input file in this run
    ruleApps,       \* calls of enforce_terminology in this run
    writes,         \* opens of the output file for writing in this run
    \* process_with_gemini
    attempt,        \* the loop variable
    calls,          \* Processor invocations in this run
    onlyTransient,  \* every failure so far was rate-limited, none other
    wait,           \* seconds of the sleep the job is in
    caught,         \* the exception of the except block the job is in,
                    \* or returned from: "none", "429" (rate limit or
                    \* quota) or "error"
    optimized,      \* the optimized_text local: "" or "text"
    \* clean_srt_content, run on its own
    cues,           \* the text group of every cue the pattern matches
    dpc,            \* "off", "parse", "first", "loop", "done"
    blocks,         \* the blocks list
    idx,            \* the loop variable i
    cleaned_lines,  \* the cleaned_lines list
    emitted,        \* per block, the fragments appended for it
    result,         \* the returned string
    \* enforce_terminology, run on its own
    rpc,            \* "off", "loop", "done", "raised"
    rules,          \* the rules argument
    rinput,         \* the text argument as passed
    rtext,          \* the text local
    ridx,           \* rules the loop has gone through
    rerrors         \* logger.error calls of the except clause

mainVars == <<workers, entries, phase, files, submits, collected>>
jobVars == <<pc, status, reason, content, reads, ruleApps, writes,
             attempt, calls, onlyTransient, wait, caught, optimized>>
batchVars == <<mainVars, fs, fsAtStart, jobVars>>
dedupVars == <<cues, dpc, blocks, idx, cleaned_lines, emitted, result>>
ruleVars == <<rpc, rules, rinput, rtext, ridx, rerrors>>
vars == <<batchVars, dedupVars, ruleVars>>

\* -------------------------------------------- clean_srt_content step by step

\* Lines the blocks of the inputs are made of.
LineSet == { <<"a">>, <<"a", "b">>, <<SP, "a">> }

\* ls cut into blocks: block k+1 starts after line c for each c in cuts.
RECURSIVE CutBlocks(_, _, _, _)
CutBlocks(ls, cuts, k, cur) ==
    IF k > Len(ls) THEN <<Join(cur, <<NL>>)>>
    ELSE IF (k - 1) \in cuts
         THEN <<Join(cur, <<NL>>)>> \o CutBlocks(ls, cuts, k + 1, <<ls[k]>>)
         ELSE CutBlocks(ls, cuts, k + 1, Append(cur, ls[k]))

\* Every block list of at most MaxLines lines in all, with no tag in it.
BlockInputs ==
    { <<>> } \cup
    UNION { { CutBlocks(ls, cuts, 2, <<ls[1]>>) :
                  ls \in [1..n -> LineSet], cuts \in SUBSET (1..(n - 1)) } :
            n \in 1..MaxLines }

BatchOff ==
    /\ workers = 0 /\ entries = {} /\ phase = "off" /\ files = {} /\ submits = <<>> /\ collected = {}
    /\ fs = <<>> /\ fsAtStart = <<>>
    /\ pc = <<>> /\ status = <<>> /\ reason = <<>> /\ content = <<>>
    /\ reads = <<>> /\ ruleApps = <<>> /\ writes = <<>>
    /\ attempt = <<>> /\ calls = <<>> /\ onlyTransient = <<>> /\ wait = <<>>
    /\ caught = <<>> /\ optimized = <<>>

\* A cue that opens with an italic tag: its block is what follows the tag,
\* leading whitespace included.
ITALIC == <<"<", "i", ">">>
Italic(bs) == [k \in DOMAIN bs |-> ITALIC \o bs[k]]

HELLO == <<"H", "e", "l", "l", "o">>
WORLD == <<"w", "o", "r", "l", "d">>

\* Plain cues with a space inside a line.
PlainCues == { <<HELLO, HELLO \o <<SP>> \o WORLD>> }

\* Cues of markup and whitespace only, and plain one- and two-line cues.
MarkupCues ==
    { << <<"<", "b", ">">>, <<"<", "i", ">", SP, "<", "/", "i", ">">> >>,
      << <<"a">>, <<"a", NL, "b">> >> }

\* The cue lists clean_srt_content is run on.
CueInputs == { Italic(bs) : bs \in BlockInputs } \cup PlainCues \cup MarkupCues

DedupOff ==
    /\ cues = <<>>
    /\ dpc = "off" /\ blocks = <<>> /\ idx = 0
    /\ cleaned_lines = <<>> /\ emitted = <<>> /\ result = <<>>

RulesOff ==
    /\ rpc = "off" /\ rules = <<>> /\ rinput = <<>> /\ rtext = <<>>
    /\ ridx = 0 /\ rerrors = 0

InitDedup ==
    /\ BatchOff
    /\ RulesOff
    /\ cues \in CueInputs
    /\ dpc = "parse"
    /\ blocks = <<>>
    /\ idx = 0
    /\ cleaned_lines = <<>>
    /\ emitted = <<>>
    /\ result = <<>>

\* The loop over pattern.finditer.
DedupParse ==
    /\ dpc = "parse"
    /\ dpc' = "first"
    /\ blocks' = ParseBlocks(cues)
    /\ UNCHANGED <<batchVars, ruleVars, cues, idx, cleaned_lines, emitted, result>>

\* if blocks: cleaned_lines.append(blocks[0])
DedupFirst ==
    /\ dpc = "first"
    /\ dpc' = "loop"
    /\ idx' = 1
    /\ cleaned_lines' = IF blocks # <<>> THEN <<blocks[1]>> ELSE <<>>
    /\ emitted' = IF blocks # <<>> THEN << <<blocks[1]>> >> ELSE <<>>
    /\ UNCHANGED <<batchVars, ruleVars, cues, blocks, result>>

\* One pass of: for i in range(1, len(blocks)).
DedupStep ==
    /\ dpc = "loop"
    /\ idx < Len(blocks)
    /\ LET new == BlockFragments(blocks[idx], blocks[idx + 1])
       IN  /\ cleaned_lines' = cleaned_lines \o new
           /\ emitted' = Append(emitted, new)
    /\ idx' = idx + 1
    /\ UNCHANGED <<batchVars, ruleVars, cues, dpc, blocks, result>>

\* return ' '.join(cleaned_lines)
DedupJoin ==
    /\ dpc = "loop"
    /\ idx >= Len(blocks)
    /\ result' = Join(cleaned_lines, <<SP>>)
    /\ dpc' = "done"
    /\ UNCHANGED <<batchVars, ruleVars, cues, blocks, idx, cleaned_lines, emitted>>

NextDedup ==
    \/ DedupParse
    \/ DedupFirst
    \/ DedupStep
    \/ DedupJoin

SpecDedup == InitDedup /\ [][NextDedup]_vars

\* ------------------------------------------------------------- RuleEngine

\* MaxText: longest text argument of the inputs; MaxRules: longest rule list.
MaxText == 2
MaxRules == 2

\* s.replace(old, new), and re.sub(old, new, s) for a pattern and a template
\* of plain characters: the occurrences of old from left to right, none
\* overlapping another, each replaced by new; an empty old matches before
\* every character and at the end.
RECURSIVE ReplaceAll(_, _, _)
ReplaceAll(s, old, new) ==
    IF old = <<>>
    THEN IF s = <<>> THEN new
         ELSE new \o <<Head(s)>> \o ReplaceAll(Tail(s), old, new)
    ELSE IF Len(s) < Len(old) THEN s
    ELSE IF StartsWith(s, old)
         THEN new \o ReplaceAll(DropFirst(s, Len(old)), old, new)
         ELSE <<Head(s)>> \o ReplaceAll(Tail(s), old, new)

\* Whether re.sub accepts the pattern: of the characters of the model only
\* "(" is not plain, and no pattern of the model closes it, so a pattern
\* with "(" raises re.error (missing parenthesis).
PatternCompiles(p) == \A k \in DOMAIN p : p[k] # "("

\* Without the try around re.sub its exception leaves enforce_terminology.
RuleErrorPropagates == FALSE

\* except Exception: the failure of a pattern rule is caught and logged.
RuleErrorCaught == TRUE

\* The rule applied to the text of all passes before it.
RuleSubjectOriginal(original_text, current_text) == original_text

\* The text a rule is applied to: the text local, as the rules before it
\* left it.
RuleSubject(original_text, current_text) == current_text

Rule(o, r, x) == [original |-> o, replacement |-> r, is_regex |-> x]

FOO == <<"f", "o", "o">>
BAR == <<"b", "a", "r">>
BAZ == <<"b", "a", "z">>
FooRules == <<Rule(FOO, BAR, FALSE), Rule(BAR, BAZ, FALSE)>>

\* Rules as load_rules builds them: plain and pattern rules, one pattern
\* that does not compile, one rule with an empty original.
RulePool ==
    { Rule(<<"a">>, <<"b">>, FALSE),
      Rule(<<"b">>, <<"a", "a">>, FALSE),
      Rule(<<"b">>, <<>>, TRUE),
      Rule(<<"(">>, <<"a">>, TRUE),
      Rule(<<>>, <<"b">>, FALSE) }

RuleLists == UNION { [1..n -> RulePool] : n \in 0..MaxRules }
Texts == UNION { [1..n -> {"a", "b"}] : n \in 0..MaxText }

InitRules ==
    /\ BatchOff
    /\ DedupOff
    /\ rpc = "loop"
    /\ \/ rinput \in Texts /\ rules \in RuleLists
       \/ rinput = FOO /\ rules = FooRules
    /\ rtext = rinput
    /\ ridx = 0
    /\ rerrors = 0

\* One pass of: for rule in rules.
RuleStep ==
    /\ rpc = "loop"
    /\ ridx < Len(rules)
    /\ LET rule == rules[ridx + 1]
           subject == RuleSubject(rinput, rtext)
       IN  IF rule.is_regex /\ ~PatternCompiles(rule.original)
           THEN IF RuleErrorCaught
                THEN /\ rerrors' = rerrors + 1
                     /\ ridx' = ridx + 1
                     /\ UNCHANGED <<rpc, rtext>>
                ELSE /\ rpc' = "raised"
                     /\ UNCHANGED <<rtext, ridx, rerrors>>
           ELSE /\ rtext' = ReplaceAll(subject, rule.original, rule.replacement)
                /\ ridx' = ridx + 1
                /\ UNCHANGED <<rpc, rerrors>>
    /\ UNCHANGED <<batchVars, dedupVars, rules, rinput>>

\* return text
RuleReturn ==
    /\ rpc = "loop"
    /\ ridx >= Len(rules)
    /\ rpc' = "done"
    /\ UNCHANGED <<batchVars, dedupVars, rules, rinput, rtext, ridx, rerrors>>

NextRules ==
    \/ RuleStep
    \/ RuleReturn

SpecRules == InitRules /\ [][NextRules]_vars

\* ------------------------------------------------------- names and discovery

\* str.endswith(suf)
EndsWith(s, suf) ==
    Len(suf) <= Len(s) /\ SubSeq(s, Len(s) - Len(suf) + 1, Len(s)) = suf

DOT == "."
TXT == <<".", "t", "x", "t">>
SRT == <<".", "s", "r", "t">>
RAG == <<"_", "r", "a", "g">>

\* excluded_files of main
excluded_files ==
    { <<"h", "i", "s", "t", "o", "r", "i", "c", "o", ".", "t", "x", "t">>,
      <<"c", "o", "o", "k", "i", "e", "s", ".", "t", "x", "t">>,
      <<"r", "e", "q", "u", "i", "r", "e", "m", "e", "n", "t", "s", ".", "t", "x", "t">>,
      <<"r", "u", "l", "e", "s", ".", "t", "x", "t">>,
      <<"L", "I", "C", "E", "N", "S", "E">>,
      <<"R", "E", "A", "D", "M", "E", ".", "m", "d">> }

\* The condition of the list comprehension that builds files.
Eligible(f) ==
    /\ EndsWith(f, TXT) \/ EndsWith(f, SRT)
    /\ ~Contains(f, RAG)
    /\ f \notin excluded_files
    /\ ~StartsWith(f, <<DOT>>)

\* os.path.splitext(filename)[0]: the name up to its last dot, a dot that
\* only leading dots precede not counting.
SplitExtRoot(f) ==
    LET dots == { k \in 1..Len(f) :
                      f[k] = DOT /\ \E m \in 1..(k - 1) : f[m] # DOT }
    IN  IF dots = {} THEN f
        ELSE SubSeq(f, 1, (CHOOSE k \in dots : \A m \in dots : m <= k) - 1)

\* output_path of process_file; output_dir is the input directory (the
\* default of --output), so a path is the file's name.
OutputPath(f) == SplitExtRoot(f) \o RAG \o TXT

A_TXT == <<"a", ".", "t", "x", "t">>
A_SRT == <<"a", ".", "s", "r", "t">>
B_SRT == <<"b", ".", "s", "r", "t">>
Others ==
    { <<"r", "u", "l", "e", "s", ".", "t", "x", "t">>,
      <<".", "n", ".", "t", "x", "t">>,
      <<"a", ".", "m", "d">>,
      <<"a", "_", "r", "a", "g", "e", ".", "t", "x", "t">> }

\* The directories a run is tried on, each by its entries that are not
\* outputs of this program: two transcripts of different names, or of one
\* name in both formats, or no transcript.
Directories == { {A_TXT, B_SRT} \cup Others, {A_TXT, A_SRT} \cup Others, Others }

\* Every file some run submits, and every output path some run can create.
AllJobs == { f \in UNION Directories : Eligible(f) }
OutPaths == { OutputPath(f) : f \in AllJobs }

\* os.listdir(args.dir)
ListDir(dir, fsys) == dir \cup { p \in OutPaths : fsys[p] # "absent" }

\* files of main
Discover(dir, fsys) == { f \in ListDir(dir, fsys) : Eligible(f) }

\* ------------------------------------------------------------ input contents

\* What a .txt input may hold.
TxtInputs == { <<"a">>, <<SP, NL>> }

\* What a .srt input may hold, as the text groups of its cues: no cue; cues
\* of markup and whitespace only; two rollup cues.
SrtInputs ==
    { <<>>,
      << <<"<", "b", ">">>, <<"<", "i", ">", " ", "<", "/", "i", ">">> >>,
      << <<"a">>, <<"a", NL, "b">> >> }

\* filename.lower().endswith('.srt'); names of the model are lower case.
IsSrt(f) == EndsWith(f, SRT)

\* content after the read and, for a .srt, clean_srt_content.
CleanedContents(f) ==
    IF IsSrt(f) THEN { clean_srt_content(cs) : cs \in SrtInputs }
    ELSE TxtInputs

\* IsEmptyContent without the strip.
IsEmptyNoStrip(c) == c = <<>>

\* not content.strip()
IsEmptyContent(c) == Strip(c) = <<>>

\* ------------------------------------------------------------------- batch

Init ==
    /\ DedupOff
    /\ RulesOff
    /\ workers \in 1..MaxWorkers
    /\ entries \in Directories
    /\ phase = "init"
    /\ files = {}
    /\ submits = [f \in AllJobs |-> 0]
    /\ collected = {}
    /\ fs = [p \in OutPaths |-> "absent"]
    /\ fsAtStart = [p \in OutPaths |-> "absent"]
    /\ pc = [f \in AllJobs |-> "unsubmitted"]
    /\ status = [f \in AllJobs |-> "Pending"]
    /\ reason = [f \in AllJobs |-> "none"]
    /\ content = [f \in AllJobs |-> <<>>]
    /\ reads = [f \in AllJobs |-> 0]
    /\ ruleApps = [f \in AllJobs |-> 0]
    /\ writes = [f \in AllJobs |-> 0]
    /\ attempt = [f \in AllJobs |-> 0]
    /\ calls = [f \in AllJobs |-> 0]
    /\ onlyTransient = [f \in AllJobs |-> TRUE]
    /\ wait = [f \in AllJobs |-> 0]
    /\ caught = [f \in AllJobs |-> "none"]
    /\ optimized = [f \in AllJobs |-> ""]

\* main up to the submission of every file, or to its return when no file
\* is found: a first run, or a run after an earlier one has reported.
StartBatch ==
    /\ phase \in {"init", "reported"}
    /\ files' = Discover(entries, fs)
    /\ phase' = IF files' = {} THEN "returned" ELSE "running"
    /\ submits' = [f \in AllJobs |-> IF f \in files' THEN 1 ELSE 0]
    /\ collected' = {}
    /\ fsAtStart' = fs
    /\ pc' = [f \in AllJobs |-> IF f \in files' THEN "pending" ELSE "unsubmitted"]
    /\ status' = [f \in AllJobs |-> "Pending"]
    /\ reason' = [f \in AllJobs |-> "none"]
    /\ content' = [f \in AllJobs |-> <<>>]
    /\ reads' = [f \in AllJobs |-> 0]
    /\ ruleApps' = [f \in AllJobs |-> 0]
    /\ writes' = [f \in AllJobs |-> 0]
    /\ attempt' = [f \in AllJobs |-> 0]
    /\ calls' = [f \in AllJobs |-> 0]
    /\ onlyTransient' = [f \in AllJobs |-> TRUE]
    /\ wait' = [f \in AllJobs |-> 0]
    /\ caught' = [f \in AllJobs |-> "none"]
    /\ optimized' = [f \in AllJobs |-> ""]
    /\ UNCHANGED <<dedupVars, ruleVars, workers, entries, fs>>

\* Busy with a thread that is lost to the pool when its job fails.
BusyOrFailed(f) ==
    /\ pc[f] \notin {"unsubmitted", "pending"}
    /\ pc[f] = "done" => status[f] = "Failed"

\* A job a worker thread is running.
Busy(f) == pc[f] \notin {"unsubmitted", "pending", "done"}

\* A pool that starts a thread for every queued job.
PoolUnbounded == TRUE

\* ThreadPoolExecutor(max_workers=args.workers): a queued job starts when
\* one of the pool's threads is idle.
PoolHasIdleWorker == Cardinality({ f \in files : Busy(f) }) < workers

\* process_file returns: the locals are gone, the counters stay.
Finish(f, st, why) ==
    /\ pc' = [pc EXCEPT ![f] = "done"]
    /\ status' = [status EXCEPT ![f] = st]
    /\ reason' = [reason EXCEPT ![f] = why]
    /\ attempt' = [attempt EXCEPT ![f] = 0]
    /\ wait' = [wait EXCEPT ![f] = 0]

\* A worker thread takes the job from the executor's queue.
Start(f) ==
    /\ phase = "running"
    /\ pc[f] = "pending"
    /\ PoolHasIdleWorker
    /\ pc' = [pc EXCEPT ![f] = "check"]
    /\ UNCHANGED <<dedupVars, ruleVars, caught, optimized, mainVars, fs, fsAtStart, status, reason, content, reads,
                   ruleApps, writes, attempt, calls, onlyTransient, wait>>

\* OutputExists looking for the suffix after the whole file name.
OutputExistsWrongPath(f) ==
    /\ (f \o RAG \o TXT) \in DOMAIN fs
    /\ fs[f \o RAG \o TXT] # "absent"

\* os.path.exists(output_path)
OutputExists(f) == fs[OutputPath(f)] # "absent"

\* The idempotency check of process_file.
CheckExists(f) ==
    /\ pc[f] = "check"
    /\ IF OutputExists(f)
       THEN Finish(f, "Skipped", "exists")
       ELSE /\ pc' = [pc EXCEPT ![f] = "read"]
            /\ UNCHANGED <<status, reason, attempt, wait>>
    /\ UNCHANGED <<dedupVars, ruleVars, caught, optimized, mainVars, fs, fsAtStart, content, reads, ruleApps, writes,
                   calls, onlyTransient>>

\* The read of the input, the cleaning of a .srt and the empty-content test.
ReadInput(f) ==
    /\ pc[f] = "read"
    /\ \/ \* open or read raises: caught by the except of process_file
          /\ Finish(f, "Failed", "exception")
          /\ UNCHANGED <<content, reads>>
       \/ \E c \in CleanedContents(f) :
              /\ content' = [content EXCEPT ![f] = c]
              /\ reads' = [reads EXCEPT ![f] = @ + 1]
              /\ IF IsEmptyContent(c)
                 THEN Finish(f, "Failed", "empty")
                 ELSE /\ pc' = [pc EXCEPT ![f] = "call"]
                      /\ UNCHANGED <<status, reason, attempt, wait>>
    /\ UNCHANGED <<dedupVars, ruleVars, caught, optimized, mainVars, fs, fsAtStart, ruleApps, writes, calls,
                   onlyTransient>>

\* "429" in str(e) or "quota" in str(e).lower()
IsRateLimited(outcome) == outcome = "429"

\* WaitTime with no growth of the rate-limit delay.
WaitTimeFlat(a, outcome) == IF IsRateLimited(outcome) THEN 5 ELSE 2

\* The sleep after a failed attempt: (attempt + 1) * 5 when rate-limited,
\* else 2.
WaitTime(a, outcome) == IF IsRateLimited(outcome) THEN (a + 1) * 5 ELSE 2

\* An error that is not rate-limited returns "" at once on the last attempt.
GivesUpAtOnce(a, outcome) ==
    ~IsRateLimited(outcome) /\ a = max_retries - 1

\* HasAttempt of a loop that is one attempt short, and of one that is one
\* attempt long.
HasAttemptOneLess(a) == a < max_retries - 1
HasAttemptOneMore(a) == a <= max_retries

\* for attempt in range(max_retries): whether the loop has an attempt a.
HasAttempt(a) == a < max_retries

\* A test of the Processor's result that lets an empty text through.
IsNoResultNever(text) == FALSE

\* if not optimized_text
IsNoResult(text) == text = ""

\* One Processor invocation of process_with_gemini and what follows it up
\* to the next sleep or to the return into process_file, with the test of
\* the returned text there.
Call(f) ==
    /\ pc[f] = "call"
    /\ calls' = [calls EXCEPT ![f] = @ + 1]
    /\ \E outcome \in {"text", "none", "429", "error"} :
          /\ onlyTransient' =
                 [onlyTransient EXCEPT ![f] = @ /\ IsRateLimited(outcome)]
          /\ CASE outcome \in {"text", "none"} ->
                     \* return response.text, which may be empty
                     /\ optimized' = [optimized EXCEPT ![f] =
                                          IF outcome = "text" THEN "text" ELSE ""]
                     /\ IF IsNoResult(optimized'[f])
                        THEN Finish(f, "Failed", "noresult")
                        ELSE /\ pc' = [pc EXCEPT ![f] = "rules"]
                             /\ UNCHANGED <<status, reason, attempt, wait>>
                     /\ UNCHANGED caught
               [] GivesUpAtOnce(attempt[f], outcome) ->
                     \* return "" from inside the except block
                     /\ Finish(f, "Failed", "noresult")
                     /\ caught' = [caught EXCEPT ![f] = outcome]
                     /\ UNCHANGED optimized
               [] OTHER ->
                     /\ pc' = [pc EXCEPT ![f] = "sleep"]
                     /\ wait' = [wait EXCEPT ![f] = WaitTime(attempt[f], outcome)]
                     /\ caught' = [caught EXCEPT ![f] = outcome]
                     /\ UNCHANGED <<status, reason, attempt, optimized>>
    /\ UNCHANGED <<dedupVars, ruleVars, mainVars, fs, fsAtStart, content, reads, ruleApps, writes>>

\* time.sleep returns and the except block is left; the loop goes to its
\* next attempt or ends, and then process_with_gemini returns "".
Wake(f) ==
    /\ pc[f] = "sleep"
    /\ caught' = [caught EXCEPT ![f] = "none"]
    /\ IF HasAttempt(attempt[f] + 1)
       THEN /\ pc' = [pc EXCEPT ![f] = "call"]
            /\ attempt' = [attempt EXCEPT ![f] = @ + 1]
            /\ wait' = [wait EXCEPT ![f] = 0]
            /\ UNCHANGED <<status, reason>>
       ELSE Finish(f, "Failed", "noresult")
    /\ UNCHANGED <<dedupVars, ruleVars, optimized, mainVars, fs, fsAtStart, content, reads, ruleApps, writes,
                   calls, onlyTransient>>

\* final_text = enforce_terminology(optimized_text, rules)
ApplyRules(f) ==
    /\ pc[f] = "rules"
    /\ ruleApps' = [ruleApps EXCEPT ![f] = @ + 1]
    /\ pc' = [pc EXCEPT ![f] = "open"]
    /\ UNCHANGED <<dedupVars, ruleVars, caught, optimized, mainVars, fs, fsAtStart, status, reason, content, reads,
                   writes, attempt, calls, onlyTransient, wait>>

\* open(output_path, 'w'): creates the file, or truncates it, before
\* anything is written; or raises and leaves the directory as it was.
OpenOutput(f) ==
    /\ pc[f] = "open"
    /\ \/ /\ Finish(f, "Failed", "exception")
          /\ UNCHANGED <<fs, writes>>
       \/ /\ fs' = [fs EXCEPT ![OutputPath(f)] = "partial"]
          /\ writes' = [writes EXCEPT ![f] = @ + 1]
          /\ pc' = [pc EXCEPT ![f] = "write"]
          /\ UNCHANGED <<status, reason, attempt, wait>>
    /\ UNCHANGED <<dedupVars, ruleVars, caught, optimized, mainVars, fsAtStart, content, reads, ruleApps, calls,
                   onlyTransient>>

\* The three f.write calls and the close of the with block: all done, or
\* one raises and the file stays as far as it was written.
WriteOutput(f) ==
    /\ pc[f] = "write"
    /\ \/ /\ Finish(f, "Failed", "exception")
          /\ UNCHANGED fs
       \/ /\ fs' = [fs EXCEPT ![OutputPath(f)] = "complete"]
          /\ Finish(f, "Succeeded", "written")
    /\ UNCHANGED <<dedupVars, ruleVars, caught, optimized, mainVars, fsAtStart, content, reads, ruleApps, writes,
                   calls, onlyTransient>>

\* Collect that submits a failed job again.
CollectResubmit(f) ==
    /\ phase = "running"
    /\ pc[f] = "done"
    /\ f \notin collected
    /\ IF status[f] = "Failed"
       THEN /\ pc' = [pc EXCEPT ![f] = "pending"]
            /\ status' = [status EXCEPT ![f] = "Pending"]
            /\ submits' = [submits EXCEPT ![f] = @ + 1]
            /\ UNCHANGED collected
       ELSE /\ collected' = collected \cup {f}
            /\ UNCHANGED <<pc, status, submits>>
    /\ UNCHANGED <<dedupVars, ruleVars, caught, optimized, workers, entries, phase, files, fs, fsAtStart,
                   reason, content, reads, ruleApps, writes, attempt, calls,
                   onlyTransient, wait>>

\* One pass of the as_completed loop of main: future.result() of a job that
\* has returned, and the log line.
Collect(f) ==
    /\ phase = "running"
    /\ pc[f] = "done"
    /\ f \notin collected
    /\ collected' = collected \cup {f}
    /\ UNCHANGED <<dedupVars, ruleVars, workers, entries, phase, files, submits, fs,
                   fsAtStart, jobVars>>

\* The with block left once a first future is taken, its threads not
\* waited for.
SomeCollected == collected # {}

\* The as_completed loop has yielded every future, so every job has
\* returned.
AllCollected == collected = files

\* The executor is left and the elapsed time is logged.
Report ==
    /\ phase = "running"
    /\ AllCollected
    /\ phase' = "reported"
    /\ UNCHANGED <<dedupVars, ruleVars, workers, entries, files, submits, collected, fs,
                   fsAtStart, jobVars>>

JobStep(f) ==
    \/ Start(f)
    \/ CheckExists(f)
    \/ ReadInput(f)
    \/ Call(f)
    \/ Wake(f)
    \/ ApplyRules(f)
    \/ OpenOutput(f)
    \/ WriteOutput(f)

Next ==
    \/ StartBatch
    \/ \E f \in files : JobStep(f)
    \/ \E f \in files : Collect(f)
    \/ Report

Spec == Init /\ [][Next]_vars

\* The threads of the pool and the main thread keep running: a job step, a
\* collection or the report that stays possible is taken. Nothing makes the
\* user start another run.
Fairness ==
    /\ \A f \in AllJobs : WF_vars(f \in files /\ JobStep(f))
    /\ \A f \in AllJobs : WF_vars(f \in files /\ Collect(f))
    /\ WF_vars(Report)

\* One invocation of main on a directory without outputs.
NextRun ==
    \/ phase = "init" /\ StartBatch
    \/ \E f \in files : JobStep(f)
    \/ \E f \in files : Collect(f)
    \/ Report

FairSpec == Init /\ [][NextRun]_vars /\ Fairness

\* ------------------------------------------------------------ claims: batch

\* A step that starts another run.
IsRerun == phase = "reported" /\ phase' = "running"

\* C1: a job all of whose Processor invocations failed rate-limited has made
\* exactly max_retries of them by the time it ends, got no text, ended
\* Failed and has opened no output file.
C1_RetryExhaustion ==
    \A f \in files :
        (pc[f] = "done" /\ calls[f] > 0 /\ onlyTransient[f]) =>
            /\ calls[f] = max_retries
            /\ status[f] = "Failed" /\ reason[f] = "noresult"
            /\ ruleApps[f] = 0 /\ writes[f] = 0

\* A job ended Failed after max_retries rate-limited invocations.
C1_Witness ==
    \E f \in files :
        /\ pc[f] = "done" /\ onlyTransient[f] /\ calls[f] = max_retries
        /\ status[f] = "Failed" /\ fs[OutputPath(f)] = "absent"

\* A Skipped job has done nothing, and neither has a run that was started
\* with every expected output in place.
C2_SkipState ==
    /\ \A f \in files :
           status[f] = "Skipped" =>
               /\ reads[f] = 0 /\ calls[f] = 0
               /\ ruleApps[f] = 0 /\ writes[f] = 0
    /\ (phase \in {"running", "reported"}
        /\ \A f \in files : fsAtStart[OutputPath(f)] # "absent") =>
           /\ fs = fsAtStart
           /\ \A f \in files :
                  /\ calls[f] = 0 /\ writes[f] = 0
                  /\ status[f] \in {"Pending", "Skipped"}

\* The step of a job that finds its output path existing.
C2_SkipStep ==
    \A f \in files :
        (pc[f] = "check" /\ pc'[f] # "check"
         /\ fs[OutputPath(f)] # "absent") =>
            /\ pc'[f] = "done" /\ status'[f] = "Skipped"
            /\ fs' = fs
            /\ <<content, reads, calls, ruleApps, writes>>' =
                   <<content, reads, calls, ruleApps, writes>>

\* C2: the step of a job that finds its output path existing ends it
\* Skipped and changes nothing else; a Skipped job has read, called, applied
\* and written nothing; and a run started with every expected output in
\* place makes no Processor call, opens no output and leaves the outputs as
\* they were.
C2_IdempotentSkip == []C2_SkipState /\ [][C2_SkipStep]_vars

\* A second run has skipped both jobs of a directory with both outputs.
C2_Witness ==
    /\ phase = "reported"
    /\ Cardinality(files) = 2
    /\ \A f \in files :
           fsAtStart[OutputPath(f)] = "complete" /\ status[f] = "Skipped"

\* C3 as stated: a job that is Failed has no file at its output path.
C3_FailedLeavesNoOutput ==
    \A f \in files : status[f] = "Failed" => fs[OutputPath(f)] = "absent"

\* C4: a job that is not finished while another has failed does finish, and
\* the step that fails a job changes nothing of another job or of main.
C4_FailureIsolation ==
    /\ \A f \in AllJobs :
           (/\ f \in files /\ pc[f] # "done"
            /\ \E g \in files \ {f} : status[g] = "Failed")
               ~> (pc[f] = "done")
    /\ [][\A g \in files :
              (status[g] # "Failed" /\ status'[g] = "Failed") =>
                  /\ phase' = phase /\ collected' = collected
                  /\ \A f \in files \ {g} :
                         /\ pc'[f] = pc[f] /\ status'[f] = status[f]
                         /\ calls'[f] = calls[f] /\ writes'[f] = writes[f]]_vars

\* With one worker, a job is writing its output after the other has failed.
C4_Witness ==
    /\ workers = 1
    /\ \E f \in files : \E g \in files \ {f} :
           status[g] = "Failed" /\ pc[f] = "write"

\* C5 as stated: no two jobs of a run open the same output path for writing.
C5_OneWriterPerOutput ==
    \A f \in files : \A g \in files \ {f} :
        ~(writes[f] > 0 /\ writes[g] > 0 /\ OutputPath(f) = OutputPath(g))

\* The invocations, rule applications and output opens of a job in a run.
C6_Counts ==
    \A f \in files :
        calls[f] <= max_retries /\ ruleApps[f] <= 1 /\ writes[f] <= 1

\* No invocation by a job past its Processor call.
C6_NoCallAfterReturn ==
    \A f \in files :
        (pc[f] \in {"rules", "open", "write", "done"} /\ ~IsRerun) =>
            calls'[f] = calls[f]

\* C6: a job invokes the Processor at most max_retries times, applies the
\* rules and opens its output at most once, and makes no invocation once one
\* has returned or the job has ended.
C6_BoundedRetries == []C6_Counts /\ [][C6_NoCallAfterReturn]_vars

\* A job that succeeded on its last attempt.
C6_Witness ==
    \E f \in files :
        /\ status[f] = "Succeeded" /\ calls[f] = max_retries
        /\ ruleApps[f] = 1 /\ writes[f] = 1

\* C7: a job that has read its input to a content that is empty once
\* stripped is Failed as empty, has invoked no Processor and has opened no
\* output.
C7_EmptyContent ==
    \A f \in files :
        (reads[f] > 0 /\ Strip(content[f]) = <<>>) =>
            /\ pc[f] = "done"
            /\ status[f] = "Failed" /\ reason[f] = "empty"
            /\ calls[f] = 0 /\ ruleApps[f] = 0 /\ writes[f] = 0

\* A subtitle file whose cues cleaned to white space only.
C7_Witness ==
    \E f \in files :
        /\ IsSrt(f) /\ reads[f] > 0 /\ content[f] = <<SP>>
        /\ status[f] = "Failed" /\ calls[f] = 0

\* One submission per file found, and a status for every job.
C8_Submitted ==
    phase \in {"running", "reported"} =>
        /\ files = Discover(entries, fsAtStart)
        /\ \A f \in AllJobs :
               /\ submits[f] = IF f \in files THEN 1 ELSE 0
               /\ status[f] \in {"Pending", "Skipped", "Succeeded", "Failed"}
               /\ pc[f] = "done" <=> status[f] # "Pending"

\* Within a run a finished job stays as it is.
C8_SetOnce ==
    \A f \in files :
        (status[f] # "Pending" /\ ~IsRerun) =>
            /\ status'[f] = status[f] /\ pc'[f] = "done"
            /\ submits'[f] = submits[f]

\* C8: a run submits each file it found once; a job is finished exactly when
\* its status is Skipped, Succeeded or Failed; and within a run a status
\* that is set stays, and no job is submitted again.
C8_JobLifecycle == []C8_Submitted /\ [][C8_SetOnce]_vars

\* A run that has ended one job Failed, the other Succeeded, both collected.
C8_Witness ==
    /\ phase = "reported"
    /\ \E f \in files : status[f] = "Failed"
    /\ \E f \in files : status[f] = "Succeeded"

\* C9: the jobs started and not finished, those in a retry sleep among them,
\* are at most as many as the pool has workers.
C9_BoundedParallelism ==
    Cardinality({ f \in files :
                      pc[f] \notin {"unsubmitted", "pending", "done"} })
        <= workers

\* The pool's one worker sleeps between attempts while the other job waits.
C9_Witness ==
    /\ workers = 1
    /\ \E f \in files : pc[f] = "sleep"
    /\ \E f \in files : pc[f] = "pending"

\* The stages of a job the counters of this run say are behind it.
C16_State ==
    \A f \in files :
        /\ calls[f] > 0 => reads[f] = 1
        /\ ruleApps[f] > 0 => calls[f] > 0 /\ optimized[f] = "text"
        /\ writes[f] > 0 => ruleApps[f] = 1
        /\ pc[f] \in {"rules", "open", "write"} => optimized[f] = "text"
        /\ status[f] = "Succeeded" =>
               reads[f] = 1 /\ calls[f] > 0 /\ ruleApps[f] = 1 /\ writes[f] = 1

\* No stage is entered again once a later one has begun; the output file
\* changes only in the write stage of a job whose rules were applied to a
\* non-empty Processor text; Succeeded is set by the step that completes
\* the write.
C16_Step ==
    IsRerun \/
    /\ \A f \in files :
           /\ reads'[f] > reads[f] => calls[f] = 0 /\ ruleApps[f] = 0 /\ writes[f] = 0
           /\ calls'[f] > calls[f] => ruleApps[f] = 0 /\ writes[f] = 0
           /\ ruleApps'[f] > ruleApps[f] => writes[f] = 0
           /\ (status'[f] = "Succeeded" /\ status[f] # "Succeeded") =>
                  /\ pc[f] = "write"
                  /\ fs'[OutputPath(f)] = "complete"
    /\ \A p \in OutPaths :
           fs'[p] # fs[p] =>
               \E f \in files :
                   /\ OutputPath(f) = p
                   /\ pc[f] \in {"open", "write"}
                   /\ optimized[f] = "text"
                   /\ ruleApps[f] = 1

\* C16: the stages of a job run in the order read and dedup, Processor call
\* with its retries, rule application, output write; the output file is
\* written only after the Processor returned a non-empty text and the rules
\* were applied to it, and a job is Succeeded only after that write is
\* complete.
C16_PipelineOrder == []C16_State /\ [][C16_Step]_vars

\* A job that Succeeded after a retry: read once, called twice, rules
\* applied once, output opened once and complete.
C16_Witness ==
    \E f \in files :
        /\ status[f] = "Succeeded"
        /\ reads[f] = 1 /\ calls[f] = 2 /\ ruleApps[f] = 1 /\ writes[f] = 1
        /\ fs[OutputPath(f)] = "complete"

C17_Safe ==
    phase = "reported" =>
        \A f \in files : pc[f] = "done" /\ status[f] \in {"Skipped", "Succeeded", "Failed"}

\* C17: with workers scheduled fairly and every Processor invocation
\* returning or failing, every submitted job reaches a terminal state and
\* the summary with the elapsed time is reported; the summary is never
\* reported while a job is Pending or in progress.
C17_BatchCompletion ==
    /\ []C17_Safe
    /\ \A f \in AllJobs :
           (phase = "running" /\ f \in files) ~>
               (pc[f] = "done" /\ status[f] \in {"Skipped", "Succeeded", "Failed"})
    /\ (phase = "running") ~> (phase = "reported")

\* The summary of a run of two jobs on one worker, one of them Failed after
\* three rate-limited attempts, the other Succeeded.
C17_Witness ==
    /\ phase = "reported"
    /\ workers = 1
    /\ \E f, g \in files :
           /\ status[f] = "Failed" /\ calls[f] = max_retries /\ onlyTransient[f]
           /\ status[g] = "Succeeded"

\* The jobs other than f that a worker is running or could take.
OthersCanStep(f) ==
    \A g \in files \ {f} :
        /\ Busy(g) => ENABLED JobStep(g)
        /\ (pc[g] = "pending" /\ PoolHasIdleWorker) => ENABLED Start(g)

\* C18 as stated: after the k-th attempt of a job fails rate-limited its
\* worker waits k * 5 seconds, after it fails otherwise the worker waits 2
\* seconds whatever k is, and the sleep holds up no other worker.
C18_EveryFailureWaits ==
    \A f \in files :
        /\ caught[f] = "429" => pc[f] = "sleep" /\ wait[f] = calls[f] * 5
        /\ caught[f] = "error" => pc[f] = "sleep" /\ wait[f] = 2
        /\ pc[f] = "sleep" => OthersCanStep(f)

\* C18 amended: after the k-th attempt of a job fails rate-limited its
\* worker waits k * 5 seconds (5, 10, 15: each longer than the one before);
\* after an attempt other than the last fails otherwise the worker waits 2
\* seconds whatever k is, and after the last attempt fails otherwise the job
\* ends with no wait; a sleep holds up no other worker.
C18_BackoffSchedule ==
    \A f \in files :
        /\ caught[f] = "429" =>
               /\ pc[f] = "sleep"
               /\ wait[f] = calls[f] * 5
               /\ calls[f] > 1 => wait[f] > (calls[f] - 1) * 5
        /\ caught[f] = "error" =>
               IF calls[f] < max_retries
               THEN pc[f] = "sleep" /\ wait[f] = 2
               ELSE pc[f] = "done" /\ status[f] = "Failed" /\ wait[f] = 0
        /\ pc[f] = "sleep" => caught[f] # "none" /\ OthersCanStep(f)

\* Two workers asleep at once: one after its third rate-limited failure,
\* for 15 seconds, the other after a second attempt that failed otherwise,
\* for 2 seconds.
C18_Witness ==
    \E f, g \in files :
        /\ pc[f] = "sleep" /\ caught[f] = "429" /\ calls[f] = 3 /\ wait[f] = 15
        /\ pc[g] = "sleep" /\ caught[g] = "error" /\ calls[g] = 2 /\ wait[g] = 2

BearsOutputSuffix(f) == EndsWith(SplitExtRoot(f), RAG)

\* C15: a file of the input directory is submitted as a job exactly if it has
\* the extension .txt or .srt, is not on the denylist, is not hidden, and
\* does not bear the output suffix; no other file with such an extension is
\* left out.
C15_DiscoveryEligibility ==
    phase \in {"running", "reported"} =>
        \A f \in ListDir(entries, fsAtStart) :
            (f \in files /\ submits[f] = 1) <=>
                /\ EndsWith(f, TXT) \/ EndsWith(f, SRT)
                /\ f \notin excluded_files
                /\ ~StartsWith(f, <<DOT>>)
                /\ ~BearsOutputSuffix(f)

\* ------------------------------------------------ claims: clean_srt_content

\* The members of ls that are not in the set seen, in order.
RECURSIVE Without(_, _)
Without(ls, seen) ==
    IF ls = <<>> THEN <<>>
    ELSE IF Head(ls) \in seen THEN Without(Tail(ls), seen)
    ELSE <<Head(ls)>> \o Without(Tail(ls), seen)

Range(f) == { f[k] : k \in DOMAIN f }

\* The lines of curr_text that are not lines of prev_text.
NewLines(prev_text, curr_text) ==
    Without(TrimmedLines(curr_text), Range(TrimmedLines(prev_text)))

\* Whether the members of ls occur in text one after the other, each as
\* contiguous text.
RECURSIVE InOrder(_, _)
InOrder(text, ls) ==
    IF ls = <<>> THEN TRUE
    ELSE IF ~Contains(text, Head(ls)) THEN FALSE
    ELSE LET k == CHOOSE k \in 0..(Len(text) - Len(Head(ls))) :
                      /\ SubSeq(text, k + 1, k + Len(Head(ls))) = Head(ls)
                      /\ \A m \in 0..(k - 1) :
                             SubSeq(text, m + 1, m + Len(Head(ls))) # Head(ls)
         IN  InOrder(DropFirst(text, k + Len(Head(ls))), Tail(ls))

\* C10 as stated: in the returned string, for every block after the first,
\* the lines of the block that are not lines of its predecessor occur
\* intact, in order, each as contiguous text.
C10_EveryNewLineIntact ==
    dpc = "done" =>
        \A i \in 2..Len(blocks) :
            InOrder(result, NewLines(blocks[i - 1], blocks[i]))

\* What a block adds to its predecessor: its lines after the predecessor's
\* text when it starts with that text, else its lines that the predecessor
\* does not have.
NewContent(prev_text, curr_text) ==
    IF StartsWith(curr_text, prev_text)
    THEN TrimmedLines(DropFirst(curr_text, Len(prev_text)))
    ELSE NewLines(prev_text, curr_text)

\* C10 amended: the text emitted for every block after the first is part of
\* the returned string and holds, in order and each as contiguous text, the
\* lines of the block that are not lines of its predecessor or, when the
\* block starts with its predecessor's text, the lines of what follows it.
C10_NewContentKept ==
    dpc = "done" =>
        \A i \in 2..Len(blocks) :
            LET seg == Join(emitted[i], <<SP>>)
            IN  /\ Contains(result, seg)
                /\ InOrder(seg, NewContent(blocks[i - 1], blocks[i]))

\* A finished run in which one block starts with its predecessor's text and
\* goes on, and another drops lines it shares with its predecessor and keeps
\* a new one.
C10_Witness ==
    /\ dpc = "done"
    /\ \E i \in 2..Len(blocks) :
           /\ StartsWith(blocks[i], blocks[i - 1])
           /\ NewContent(blocks[i - 1], blocks[i]) # <<>>
    /\ \E i \in 2..Len(blocks) :
           /\ ~StartsWith(blocks[i], blocks[i - 1])
           /\ StartIdx(TrimmedLines(blocks[i - 1]), TrimmedLines(blocks[i])) > 0
           /\ NewContent(blocks[i - 1], blocks[i]) # <<>>

\* Whether every character of s is whitespace.
AllSpace(s) == \A k \in DOMAIN s : IsSpace(s[k])

\* Whether e is s without the whitespace around it.
IsTrimOf(e, s) ==
    /\ e # <<>> => ~IsSpace(e[1]) /\ ~IsSpace(e[Len(e)])
    /\ \E a \in 0..Len(s) : \E b \in a..Len(s) :
           /\ AllSpace(SubSeq(s, 1, a))
           /\ SubSeq(s, a + 1, b) = e
           /\ AllSpace(SubSeq(s, b + 1, Len(s)))

\* The blocks the loop has gone through so far, but for the first.
Passed == IF dpc \in {"loop", "done"} THEN 2..Len(emitted) ELSE {}

\* C11: for a block that starts with its predecessor's whole text, the only
\* fragment emitted is what follows that text with the whitespace around it
\* trimmed, and nothing is emitted when that is empty, so a block identical
\* to its predecessor adds no fragment; for the blocks "Hello",
\* "Hello world" the returned string is "Hello world".
C11_PrefixCase ==
    /\ \A i \in Passed :
           StartsWith(blocks[i], blocks[i - 1]) =>
               LET rest == DropFirst(blocks[i], Len(blocks[i - 1]))
               IN  /\ Len(emitted[i]) <= 1
                   /\ AllSpace(rest) => emitted[i] = <<>>
                   /\ blocks[i] = blocks[i - 1] => emitted[i] = <<>>
                   /\ ~AllSpace(rest) =>
                          /\ Len(emitted[i]) = 1
                          /\ IsTrimOf(emitted[i][1], rest)
    /\ (dpc = "done" /\ blocks = <<HELLO, HELLO \o <<SP>> \o WORLD>>)
           => result = HELLO \o <<SP>> \o WORLD

\* A finished run with a block identical to its predecessor and a block that
\* goes on after its predecessor's text with whitespace before the new part.
C11_Witness ==
    /\ dpc = "done"
    /\ \E i \in Passed : blocks[i] = blocks[i - 1] /\ emitted[i] = <<>>
    /\ \E i \in Passed :
           /\ StartsWith(blocks[i], blocks[i - 1])
           /\ Len(emitted[i]) = 1
           /\ emitted[i][1] # DropFirst(blocks[i], Len(blocks[i - 1]))

\* The start index as C12 words it, from the lines of the two blocks.
OverlapStart(pl, cl) ==
    IF pl # <<>> /\ cl # <<>> /\ pl[Len(pl)] = cl[1] THEN 1
    ELSE IF Len(pl) < Len(cl) /\ \A k \in 1..Len(pl) : cl[k] = pl[k]
         THEN Len(pl)
         ELSE 0

\* C12: for a block that does not start with its predecessor's whole text,
\* the fragments emitted are its non-empty trimmed lines from a start index
\* on, in order: 1 if the predecessor's last line is the block's first line,
\* else the predecessor's line count if the predecessor has fewer lines and
\* all of them open the block, else 0; only the block and its immediate
\* predecessor decide what is emitted.
C12_LineOverlap ==
    \A i \in Passed :
        ~StartsWith(blocks[i], blocks[i - 1]) =>
            LET pl == TrimmedLines(blocks[i - 1])
                cl == TrimmedLines(blocks[i])
                start == OverlapStart(pl, cl)
            IN  /\ Len(emitted[i]) = Len(cl) - start
                /\ \A k \in 1..Len(emitted[i]) : emitted[i][k] = cl[start + k]

\* A finished run with a block that repeats all the lines of its predecessor
\* (two or more, the last of them not the block's first), does not start
\* with its text, and goes on with a new line.
C12_Witness ==
    /\ dpc = "done"
    /\ \E i \in Passed :
           LET pl == TrimmedLines(blocks[i - 1])
               cl == TrimmedLines(blocks[i])
           IN  /\ ~StartsWith(blocks[i], blocks[i - 1])
               /\ Len(pl) >= 2
               /\ pl[Len(pl)] # cl[1]
               /\ OverlapStart(pl, cl) = Len(pl)
               /\ emitted[i] # <<>>

\* Whether s holds a tag: a "<" with a ">" after it.
HasTag(s) == \E k \in DOMAIN s : s[k] = "<" /\ \E m \in (k + 1)..Len(s) : s[m] = ">"

\* The cues whose text, tags taken out, is not whitespace only.
RECURSIVE NonEmptyCues(_)
NonEmptyCues(cs) ==
    IF cs = <<>> THEN <<>>
    ELSE IF AllSpace(RemoveTags(Head(cs))) THEN NonEmptyCues(Tail(cs))
    ELSE <<Head(cs)>> \o NonEmptyCues(Tail(cs))

\* C20: every block the parser keeps has its tags removed, has no whitespace
\* at its start or end, and is not empty; a cue whose text is empty after
\* cleaning, such as one of markup and whitespace only, is dropped and adds
\* no fragment to the returned string.
C20_ParserOutput ==
    dpc \notin {"off", "parse"} =>
        /\ \A k \in DOMAIN blocks :
               /\ blocks[k] # <<>>
               /\ ~HasTag(blocks[k])
               /\ ~IsSpace(blocks[k][1])
               /\ ~IsSpace(blocks[k][Len(blocks[k])])
        /\ Len(blocks) = Len(NonEmptyCues(cues))
        /\ (dpc = "done" /\ NonEmptyCues(cues) = <<>>) => result = <<>>

\* ------------------------------------------------------ claims: RuleEngine

\* What one rule makes of a text.
SingleRule(t, rule) ==
    IF rule.is_regex /\ ~PatternCompiles(rule.original) THEN t
    ELSE ReplaceAll(t, rule.original, rule.replacement)

\* The left fold of SingleRule over the rule list rs, from the text t.
RECURSIVE FoldRules(_, _)
FoldRules(t, rs) ==
    IF rs = <<>> THEN t
    ELSE SingleRule(FoldRules(t, SubSeq(rs, 1, Len(rs) - 1)), rs[Len(rs)])

\* C13: the rules are applied one after the other in list order, each to
\* what the rule before it left and not to the text as passed: after every
\* pass the text is the left fold of single-rule application over the rules
\* gone through, and the rules "foo" -> "bar", "bar" -> "baz" make "baz" of
\* "foo".
C13_RuleOrdering ==
    /\ rpc \in {"loop", "done"} => rtext = FoldRules(rinput, SubSeq(rules, 1, ridx))
    /\ rpc = "done" => rtext = FoldRules(rinput, rules)
    /\ (rpc = "done" /\ rinput = FOO /\ rules = FooRules) => rtext = BAZ

\* A finished call in which the second rule changed what the first rule had
\* made of the text, to a result no rule makes of the text as passed.
C13_Witness ==
    /\ rpc = "done"
    /\ Len(rules) = 2
    /\ SingleRule(rinput, rules[1]) # rinput
    /\ rtext # SingleRule(rinput, rules[1])
    /\ rtext # SingleRule(rinput, rules[2])

\* Whether the rule is a pattern rule whose re.sub raises.
Fails(rule) == rule.is_regex /\ ~PatternCompiles(rule.original)

\* The rules of rs that do not fail, in order.
RECURSIVE Sound(_)
Sound(rs) ==
    IF rs = <<>> THEN <<>>
    ELSE IF Fails(Head(rs)) THEN Sound(Tail(rs))
    ELSE <<Head(rs)>> \o Sound(Tail(rs))

C14_State ==
    /\ rpc # "raised"
    /\ rpc = "done" =>
           /\ ridx = Len(rules)
           /\ rerrors = Len(rules) - Len(Sound(rules))
           /\ rtext = FoldRules(rinput, Sound(rules))

C14_Step ==
    /\ rules' = rules
    /\ (rpc = "loop" /\ ridx < Len(rules) /\ Fails(rules[ridx + 1])) =>
           /\ rtext' = rtext
           /\ ridx' = ridx + 1
           /\ rpc' = "loop"

\* C14: when a pattern rule fails to compile or apply, the text stays as it
\* was before that rule, every later rule is still applied in order (the
\* call returns what the rules that do not fail make of the text, having
\* gone through the whole list), no error leaves enforce_terminology, and
\* the rule list is never changed.
C14_RuleFailureIsolated == []C14_State /\ [][C14_Step]_vars

\* A finished call whose first rule failed and whose second rule changed
\* the text.
C14_Witness ==
    /\ rpc = "done"
    /\ Len(rules) = 2
    /\ Fails(rules[1])
    /\ ~Fails(rules[2])
    /\ rerrors = 1
    /\ rtext # rinput

====
